---- MODULE Spec2Model ----
(***************************************************************************)
(* Model of the RSS collector's deduplicating day store                    *)
(* (src/src/storage_manager.py) and of its retry helper                    *)
(* (src/src/utils/helpers.py).                                             *)
(*                                                                         *)
(* A Python str is a sequence of one-character strings, so that str.strip  *)
(* and string concatenation are computed, not assumed.  A dict is a        *)
(* sequence of [key, val] entries in insertion order, which is the order   *)
(* list(data.values()) and json.dump see.                                  *)
(***************************************************************************)
EXTENDS Integers, Sequences, FiniteSets

\* -------------------------------------------------------------------------
\* Bounds of the model
\* -------------------------------------------------------------------------
MaxBatch == 2
MaxDay == 2
MaxSaved == 2
MaxLogLines == 2
MaxRetries == 3
MaxEntries == 2
MaxParsed == 1
MaxFileDay == 2
MaxKeep == 2

\* -------------------------------------------------------------------------
\* Strings
\* -------------------------------------------------------------------------
Empty == <<>>
WS == {" "}

RECURSIVE LStrip(_)
LStrip(s) == IF s /= <<>> /\ Head(s) \in WS THEN LStrip(Tail(s)) ELSE s

RECURSIVE RStrip(_)
RStrip(s) ==
    IF s /= <<>> /\ s[Len(s)] \in WS THEN RStrip(SubSeq(s, 1, Len(s) - 1)) ELSE s

\* str.strip()
Strip(s) == RStrip(LStrip(s))

\* truthiness of a str: non-empty
Truthy(s) == s /= <<>>

\* hashlib.sha256(x).hexdigest(): a non-empty digest, taken to be free of
\* collisions and never equal to a link ("#" occurs in no other string).
Sha256Hex(s) == <<"#">> \o s

\* -------------------------------------------------------------------------
\* Articles
\* -------------------------------------------------------------------------
Art(t, l, p, s) == [title |-> t, link |-> l, published |-> p, snippet |-> s]

ArtA == Art(<<"t">>, <<"x">>, <<"p">>, <<"1">>)
ArtA2 == Art(<<"t">>, <<"x">>, <<"p">>, <<"2">>)
ArtB == Art(<<"u">>, <<"y">>, <<"p">>, <<"1">>)
ArtANoLink == Art(<<"t">>, Empty, <<" ", "p">>, <<"1">>)
ArtBlank == Art(Empty, <<" ">>, Empty, Empty)

Articles == {ArtA, ArtA2, ArtB, ArtANoLink, ArtBlank}

RECURSIVE SeqsUpTo(_, _)
SeqsUpTo(S, n) ==
    IF n = 0 THEN {<<>>}
    ELSE LET shorter == SeqsUpTo(S, n - 1)
         IN shorter \cup {Append(q, x) : q \in {r \in shorter : Len(r) = n - 1}, x \in S}

Range(q) == {q[i] : i \in 1..Len(q)}

\* -------------------------------------------------------------------------
\* StorageManager._get_article_hash
\* -------------------------------------------------------------------------
GetArticleHash(article) ==
    LET title == Strip(article.title)
        published == Strip(article.published)
        link == Strip(article.link)
        unique_id == IF Truthy(link) THEN link ELSE title \o <<"|">> \o published
    IN IF ~Truthy(unique_id) THEN Empty ELSE Sha256Hex(unique_id)

\* StorageManager._is_duplicate
IsDuplicate(article, existing_links, existing_hashes) ==
    LET article_link == Strip(article.link)
        article_hash == GetArticleHash(article)
    IN IF Truthy(article_link) /\ article_link \in existing_links THEN TRUE
       ELSE IF Truthy(article_hash) /\ article_hash \in existing_hashes THEN TRUE
       ELSE FALSE

\* -------------------------------------------------------------------------
\* Files of one day: the snapshot <date>.json and the log <date>.jsonl
\* -------------------------------------------------------------------------
\* kind of a snapshot file:
\*   "absent"      no file
\*   "array"       a JSON array of articles (arr)
\*   "object"      a JSON object identity -> article (obj)
\*   "scalar"      valid JSON that is neither an array nor an object
\*   "invalid"     not JSON (also: a truncated, half-written file)
\*   "unreadable"  the file exists and open() or read() raises
File(k, a, o) == [kind |-> k, arr |-> a, obj |-> o]
NoFile == File("absent", <<>>, <<>>)
ArrayFile(a) == File("array", a, <<>>)
ObjectFile(o) == File("object", <<>>, o)
ScalarFile == File("scalar", <<>>, <<>>)
InvalidFile == File("invalid", <<>>, <<>>)
UnreadableFile == File("unreadable", <<>>, <<>>)

Entry(k, v) == [key |-> k, val |-> v]
Keys(d) == {d[i].key : i \in 1..Len(d)}
Values(d) == [i \in 1..Len(d) |-> d[i].val]

\* d[k] = v for a dict d: replaces the value of an existing key in place,
\* appends a new key at the end
DictSet(d, k, v) ==
    IF k \in Keys(d)
    THEN [i \in 1..Len(d) |-> IF d[i].key = k THEN Entry(k, v) ELSE d[i]]
    ELSE Append(d, Entry(k, v))

\* What _load_existing_data returns: a dict, or the list [] of its except arms
PyDict(d) == [type |-> "dict", items |-> d]
PyList == [type |-> "list", items |-> <<>>]

\* StorageManager._load_existing_data
LoadExistingData(file) ==
    CASE file.kind = "absent" -> PyDict(<<>>)
      [] file.kind = "unreadable" -> PyList
      [] file.kind = "invalid" -> PyList
      [] file.kind = "object" -> PyDict(file.obj)
      [] OTHER -> PyDict(<<>>)

\* -------------------------------------------------------------------------
\* The environment's answer to the two writes of a call
\* -------------------------------------------------------------------------
\*   "ok"           the write succeeds
\*   "open_fails"   open() raises: the file is left as it was
\*   "write_fails"  open() succeeded and a later write raises: the snapshot
\*                  (opened with "w") is left truncated, the log (opened with
\*                  "a") has gained the first `partial` lines
IO(s, a, k) == [save |-> s, append |-> a, partial |-> k]
IOOk == IO("ok", "ok", 0)
Envs ==
    {IOOk, IO("open_fails", "ok", 0), IO("write_fails", "ok", 0), IO("ok", "open_fails", 0),
     IO("ok", "write_fails", 0), IO("ok", "write_fails", 1)}

Min(a, b) == IF a < b THEN a ELSE b

\* StorageManager._save_data: [file, raised]
SaveData(file, data, io) ==
    CASE io.save = "open_fails" -> [file |-> file, raised |-> TRUE]
      [] io.save = "write_fails" -> [file |-> InvalidFile, raised |-> TRUE]
      [] OTHER -> [file |-> ArrayFile(Values(data)), raised |-> FALSE]

\* StorageManager._append_jsonl: [log, raised]; a log is [exists, lines]
Log(e, l) == [exists |-> e, lines |-> l]
NoLog == Log(FALSE, <<>>)

AppendJsonl(log, articles, io) ==
    CASE io.append = "open_fails" -> [log |-> log, raised |-> TRUE]
      [] io.append = "write_fails" /\ articles /= <<>> ->
            [log |-> Log(TRUE, log.lines
                                \o SubSeq(articles, 1, Min(io.partial, Len(articles) - 1))),
             raised |-> TRUE]
      [] OTHER -> [log |-> Log(TRUE, log.lines \o articles), raised |-> FALSE]

\* -------------------------------------------------------------------------
\* StorageManager.store_feed_data
\* -------------------------------------------------------------------------
\* Names bound in store_feed_data and at module level of storage_manager.py;
\* a name in neither (and not a builtin) raises NameError when it is read.
StoreFeedDataLocals ==
    {"self", "feed_data", "today", "existing_data_dict", "existing_links",
     "existing_hashes", "incoming_articles", "new_articles_list", "total_processed",
     "duplicates_found", "article", "article_id", "article_link",
     "new_articles_count", "stats"}

ModuleGlobals ==
    {"json", "logging", "os", "sys", "hashlib", "datetime", "timedelta", "List",
     "Dict", "Any", "Set", "log_deduplication_results", "logger", "StorageManager"}

NameResolves(name) == name \in StoreFeedDataLocals \cup ModuleGlobals

\* lines 185-186: the two lookup sets built from the loaded partition
ExistingLinks(d) == {Strip(d[i].val.link) : i \in {j \in 1..Len(d) : Truthy(d[j].val.link)}}
ExistingHashes(d) ==
    {GetArticleHash(d[i].val) : i \in {j \in 1..Len(d) : ~Truthy(d[j].val.link)}}

\* line 195
ArticleId(article) ==
    IF Truthy(Strip(article.link)) THEN Strip(article.link) ELSE GetArticleHash(article)

\* lines 194-222: one pass of the loop body over acc =
\* [dict, links, hashes, new, dup]
ProcessArticle(acc, article) ==
    LET article_id == ArticleId(article)
        article_link == Strip(article.link)
    IN IF ~Truthy(article_id) THEN [acc EXCEPT !.dup = @ + 1]
       ELSE IF article_id \in Keys(acc.dict) THEN [acc EXCEPT !.dup = @ + 1]
       ELSE IF IsDuplicate(article, acc.links, acc.hashes) THEN [acc EXCEPT !.dup = @ + 1]
       ELSE [dict |-> DictSet(acc.dict, article_id, article),
             links |-> IF Truthy(article_link) THEN acc.links \cup {article_link}
                       ELSE acc.links,
             hashes |-> IF Truthy(article_link) THEN acc.hashes
                        ELSE acc.hashes \cup {GetArticleHash(article)},
             new |-> Append(acc.new, article),
             dup |-> acc.dup]

RECURSIVE ProcessArticles(_, _)
ProcessArticles(acc, articles) ==
    IF articles = <<>> THEN acc
    ELSE ProcessArticles(ProcessArticle(acc, Head(articles)), Tail(articles))

Stats(n, d, t) == [new_articles |-> n, duplicates_found |-> d, total_articles |-> t]
NoStats == Stats(-1, -1, -1)

StoreResult(o, st, f, l, acc) ==
    [outcome |-> o, stats |-> st, snap |-> f, log |-> l,
     dict |-> acc.dict, new |-> acc.new, dup |-> acc.dup]

EmptyAcc == [dict |-> <<>>, links |-> {}, hashes |-> {}, new |-> <<>>, dup |-> 0]

\* lines 227-232, reached only when the name read on line 227 resolves
PersistNew(files, acc, io) ==
    IF acc.new = <<>> THEN [snap |-> files.snap, log |-> files.log, raised |-> FALSE]
    ELSE LET s == SaveData(files.snap, acc.dict, io)
         IN IF s.raised THEN [snap |-> s.file, log |-> files.log, raised |-> TRUE]
            ELSE LET a == AppendJsonl(files.log, acc.new, io)
                 IN [snap |-> s.file, log |-> a.log, raised |-> a.raised]

\* The whole call on the files of today: what it raises or returns, the files
\* it leaves, and the partition and list of new articles it built in memory.
StoreFeedData(files, incoming_articles, io) ==
    LET loaded == LoadExistingData(files.snap)
    IN IF loaded.type /= "dict"
       THEN \* line 185: [].values()
            StoreResult("AttributeError", NoStats, files.snap, files.log, EmptyAcc)
       ELSE LET acc == CHOOSE a \in {ProcessArticles(
                                             [dict |-> loaded.items,
                                              links |-> ExistingLinks(loaded.items),
                                              hashes |-> ExistingHashes(loaded.items),
                                              new |-> <<>>, dup |-> 0],
                                             incoming_articles)} : TRUE
            IN IF ~NameResolves("new_articles")
               THEN \* line 227
                    StoreResult("NameError", NoStats, files.snap, files.log, acc)
               ELSE LET p == PersistNew(files, acc, io)
                    IN IF p.raised
                       THEN StoreResult("OSError", NoStats, p.snap, p.log, acc)
                       ELSE IF ~NameResolves("articles")
                       THEN \* line 238
                            StoreResult("NameError", NoStats, p.snap, p.log, acc)
                       ELSE StoreResult("returned",
                                        Stats(Len(acc.new), acc.dup, Len(incoming_articles)),
                                        p.snap, p.log, acc)

\* -------------------------------------------------------------------------
\* State
\* -------------------------------------------------------------------------
VARIABLES
    today,   \* the local date datetime.now() gives, as a day number
    disk,    \* day -> [snap, log]: the feeds directory
    last,    \* the latest StorageManager call: its arguments and its result
    prev,    \* what the store_feed_data call before `last` did, seen from `last`
    loaded,  \* what the latest direct _load_existing_data call returned
    io,      \* how the file system answers writes in this run
    rb,      \* the retry_with_backoff call in progress
    fx,      \* the latest RSSFetcher call: its inputs and its result
    px,      \* the latest RSSParser.parse_rss call: the feed and its result
    rc,      \* the run_collection call: configuration, position, statistics
    cu,      \* the latest cleanup_old_files call: the directory before and after
    hx,      \* the two latest create_article_hash calls
    sx,      \* store_feed_data calls of two threads, step by step
    sch      \* the Scheduler object, its loop threads and its callers

vars == <<today, disk, last, prev, loaded, io, rb, fx, px, rc, cu, hx, sx, sch>>

Days == 1..MaxDay
Files(s, l) == [snap |-> s, log |-> l]
Feeds == SeqsUpTo(Articles, MaxBatch)

\* The partition a call on this snapshot starts from
PartitionOf(file) == LoadExistingData(file).items

\* The feeds directory found at start-up: empty, or today's snapshot left by
\* an earlier process (an array as _save_data writes it, an object as
\* _load_existing_data reads it) or damaged
InitFiles ==
    {Files(NoFile, NoLog),
     Files(ArrayFile(<<ArtA>>), Log(TRUE, <<ArtA>>)),
     Files(ObjectFile(<<Entry(ArticleId(ArtA), ArtA)>>), Log(TRUE, <<ArtA>>)),
     Files(ScalarFile, NoLog),
     Files(InvalidFile, NoLog),
     Files(UnreadableFile, NoLog)}

Call(op, day, feed, pre, r) ==
    [op |-> op, day |-> day, feed |-> feed, pre |-> pre,
     outcome |-> r.outcome, stats |-> r.stats, dict |-> r.dict, new |-> r.new,
     dup |-> r.dup]

NoCall ==
    Call("none", 0, <<>>, Files(NoFile, NoLog),
         StoreResult("none", NoStats, NoFile, NoLog, EmptyAcc))

\* identities of a feed are pairwise distinct / none is in the partition
Identities(feed) == {ArticleId(feed[i]) : i \in 1..Len(feed)}
DistinctIdentities(feed) == Cardinality(Identities(feed)) = Len(feed)
NoneStored(file, feed) == Identities(feed) \cap Keys(PartitionOf(file)) = {}

Prev(v, same, c) ==
    [valid |-> v, same |-> same, outcome |-> c.outcome, stats |-> c.stats,
     fresh |-> DistinctIdentities(c.feed) /\ NoneStored(c.pre.snap, c.feed)]
NoPrev == Prev(FALSE, FALSE, NoCall)

NoLoaded == [valid |-> FALSE, day |-> 0, value |-> PyDict(<<>>)]

\* A retry_with_backoff call: its arguments, the loop variable, the outcome of
\* every func() call so far, the delays slept, and how the call ended.  The
\* value func() returns and the exception it raises are named by the number
\* of the func() call that produced them.
Rb(pc, r, d0, b, attempt, outcomes, sleeps, result, from) ==
    [pc |-> pc, max_retries |-> r, initial_delay |-> d0, backoff_factor |-> b,
     attempt |-> attempt, outcomes |-> outcomes, sleeps |-> sleeps,
     result |-> result, from |-> from]
RbIdle == Rb("idle", 0, 0, 0, 0, <<>>, <<>>, "none", 0)

\* An RSSFetcher call: the method, the answers the network gives to
\* successive GETs, self.max_retries, the injected parser; the number of GETs
\* made, what the call returned and what it raised.
Fx(op, script, r, parser, gets, result, raised) ==
    [op |-> op, script |-> script, max_retries |-> r, parser |-> parser,
     gets |-> gets, result |-> result, raised |-> raised]
FxIdle == Fx("none", <<>>, 0, "none", 0, "none", "none")

\* A parse_rss call: the entries and the link feedparser found, the FeedResult
\* (source_url, articles), whether the call raised, and for each article the
\* position of the entry it was extracted from.
Px(op, entries, feed_link, source_url, articles, kept, raised) ==
    [op |-> op, entries |-> entries, feed_link |-> feed_link,
     source_url |-> source_url, articles |-> articles, kept |-> kept,
     raised |-> raised]
PxIdle == Px("none", <<>>, <<>>, <<>>, <<>>, <<>>, FALSE)

\* The stats dictionary of run_collection (duration_seconds left out);
\* success_rate is the fraction num / den of a percentage.
RunStats(ta, tn, tk, e, sr) ==
    [total_articles |-> ta, total_new_articles |-> tn, total_keywords |-> tk,
     errors |-> e, success_rate |-> sr]
Rate(num, den) == [num |-> num, den |-> den]
RunStatsInit == RunStats(0, 0, 0, 0, Rate(0, 1))

\* A run_collection call: where it is (pc, group_index, keyword_index, both
\* counted from 1), the keyword groups, the components the collector holds,
\* stats, the keywords attempted and the pauses taken so far in order, the
\* outcome of the latest keyword, and whether the call has returned stats.
Rc(pc, groups, components, gi, ki, stats, trace, outcome, returned) ==
    [pc |-> pc, keyword_groups |-> groups, components |-> components,
     group_index |-> gi, keyword_index |-> ki, stats |-> stats, trace |-> trace,
     outcome |-> outcome, returned |-> returned]
\* A cleanup_old_files call: whether feeds_dir exists, the names in it, the
\* names os.remove fails on, now (day and half of the day), days_to_keep; the
\* names left afterwards and the count returned.
Cu(op, exists, dir, failing, now, half, days_to_keep, after, removed_count) ==
    [op |-> op, exists |-> exists, dir |-> dir, failing |-> failing, now |-> now,
     half |-> half, days_to_keep |-> days_to_keep, after |-> after,
     removed_count |-> removed_count]
CuIdle == Cu("none", FALSE, {}, {}, 0, 0, 0, {}, 0)

\* A create_article_hash call and the digest it returned; the number of calls
\* made and the two latest of them.
HashCall(title, pub_date, digest) ==
    [title |-> title, pub_date |-> pub_date, digest |-> digest]
NoHashCall == HashCall(<<>>, <<>>, <<>>)
HxIdle == [calls |-> 0, earlier |-> NoHashCall, latest |-> NoHashCall]

NoOutcome == [kind |-> "none", articles |-> 0, new |-> 0]
RcIdle == Rc("idle", <<>>, "as_written", 0, 0, RunStatsInit, <<>>, NoOutcome, FALSE)

\* A store_feed_data call of one thread: where it is, the date of line 177,
\* its argument, what it has built in memory, how it ended
Th(pc, day, feed, acc, outcome, stats) ==
    [pc |-> pc, day |-> day, feed |-> feed, acc |-> acc, outcome |-> outcome,
     stats |-> stats]
ThIdle == Th("idle", 0, <<>>, EmptyAcc, "none", NoStats)
Threads == {1, 2}
SxIdle == [th |-> [t \in Threads |-> ThIdle], order |-> <<>>]

\* The loop threads start() may create in one behaviour
MaxThreads == 2
LoopThreads == 1..MaxThreads

\* A Scheduler (scheduler.py lines 33-37) with the job registry of the
\* schedule module, the threads start() created (loop[i] is where thread i
\* is: "unborn", "check", "pending", "job", "exited"), the thread that calls
\* start() and stop() (main) and the one that calls run_now() (other)
Sch(built, times, running, thread, loop, jobs, main, other, lastcall, raised) ==
    [built |-> built, times |-> times, running |-> running, thread |-> thread,
     loop |-> loop, jobs |-> jobs, main |-> main, other |-> other,
     lastcall |-> lastcall, raised |-> raised]
SchIdle ==
    Sch(FALSE, <<>>, FALSE, 0, [i \in LoopThreads |-> "unborn"], 0, "idle", "idle",
        "none", FALSE)

Init ==
    /\ today = 1
    /\ \E f \in InitFiles :
           /\ disk = [d \in Days |-> IF d = 1 THEN f ELSE Files(NoFile, NoLog)]
           /\ io \in IF f = Files(NoFile, NoLog) THEN Envs ELSE {IOOk}
    /\ last = NoCall
    /\ prev = NoPrev
    /\ loaded = NoLoaded
    /\ rb = RbIdle
    /\ fx = FxIdle
    /\ px = PxIdle
    /\ rc = RcIdle
    /\ cu = CuIdle
    /\ hx = HxIdle
    /\ sx = SxIdle
    /\ sch = SchIdle

\* The same, in an empty feeds directory on a working disk
InitQuiet ==
    /\ today = 1
    /\ disk = [d \in Days |-> Files(NoFile, NoLog)]
    /\ io = IOOk
    /\ last = NoCall
    /\ prev = NoPrev
    /\ loaded = NoLoaded
    /\ rb = RbIdle
    /\ fx = FxIdle
    /\ px = PxIdle
    /\ rc = RcIdle
    /\ cu = CuIdle
    /\ hx = HxIdle
    /\ sx = SxIdle
    /\ sch = SchIdle

\* -------------------------------------------------------------------------
\* Actions of the store
\* -------------------------------------------------------------------------
\* storage_manager.store_feed_data(feed_data), today = datetime.now()
StoreFeedDataCall ==
    /\ Len(disk[today].log.lines) <= MaxLogLines
    /\ \E articles \in Feeds :
           \E r \in {StoreFeedData(disk[today], articles, io)} :
               /\ disk' = [disk EXCEPT ![today] = Files(r.snap, r.log)]
               /\ last' = Call("store", today, articles, disk[today], r)
               /\ prev' = IF last.op = "store"
                          THEN Prev(TRUE, last.day = today /\ last.feed = articles, last)
                          ELSE NoPrev
    /\ UNCHANGED <<today, loaded, io, rb, fx, px, rc, cu, hx, sx, sch>>

\* midnight passes
AdvanceDay ==
    /\ today < MaxDay
    /\ today' = today + 1
    /\ UNCHANGED <<disk, last, prev, loaded, io, rb, fx, px, rc, cu, hx, sx, sch>>

Next == StoreFeedDataCall \/ AdvanceDay

Spec == Init /\ [][Next]_vars

\* -------------------------------------------------------------------------
\* Direct calls of the two snapshot primitives, on today's date
\* -------------------------------------------------------------------------
\* The partitions store_feed_data can hand to _save_data
Partitions == {ProcessArticles(EmptyAcc, f).dict : f \in SeqsUpTo(Articles, MaxSaved)}

\* storage_manager._save_data(data, today)
SaveDataCall ==
    /\ \E data \in Partitions :
           \E s \in {SaveData(disk[today].snap, data, io)} :
               /\ disk' = [disk EXCEPT ![today].snap = s.file]
               /\ last' = Call("save", today, <<>>, disk[today],
                               StoreResult(IF s.raised THEN "OSError" ELSE "returned",
                                           NoStats, s.file, disk[today].log,
                                           [EmptyAcc EXCEPT !.dict = data]))
    /\ prev' = NoPrev
    /\ loaded' = NoLoaded
    /\ UNCHANGED <<today, io, rb, fx, px, rc, cu, hx, sx, sch>>

\* storage_manager._load_existing_data(today)
LoadExistingDataCall ==
    /\ loaded' = [valid |-> TRUE, day |-> today,
                  value |-> LoadExistingData(disk[today].snap)]
    /\ UNCHANGED <<today, disk, last, prev, io, rb, fx, px, rc, cu, hx, sx, sch>>

NextIO == SaveDataCall \/ LoadExistingDataCall

SpecIO == Init /\ [][NextIO]_vars

\* -------------------------------------------------------------------------
\* Properties of store_feed_data
\* -------------------------------------------------------------------------
Stored(call) == call.op = "store"
Returned(call) == call.outcome = "returned"

\* create_article_hash of helpers.py on the article's title and published
TitlePublishedHash(a) == Sha256Hex(Strip(a.title) \o <<"|">> \o Strip(a.published))

\* the articles a snapshot file holds
FileArticles(file) == Range(file.arr) \cup Range(Values(file.obj))
ValidContent(file) == file.kind \in {"array", "object"}

\* C1: a feed of N articles with pairwise distinct identities, none of them in
\* today's partition, stored twice in a row on one day: the first call returns
\* new_articles = N, the second new_articles = 0 and duplicates_found = N.
C1_Idempotence ==
    /\ (Stored(last) /\ DistinctIdentities(last.feed)
            /\ NoneStored(last.pre.snap, last.feed))
           => (Returned(last) /\ last.stats.new_articles = Len(last.feed))
    /\ (Stored(last) /\ prev.valid /\ prev.same /\ prev.fresh)
           => (Returned(last) /\ last.stats.new_articles = 0
                   /\ last.stats.duplicates_found = Len(last.feed))

\* C2: a feed of two articles with one identity that the partition does not
\* hold: the article is inserted once and the call returns new_articles = 1,
\* duplicates_found = 1.
C2_SameBatchSelfDedup ==
    (Stored(last) /\ Len(last.feed) = 2
         /\ ArticleId(last.feed[1]) = ArticleId(last.feed[2])
         /\ NoneStored(last.pre.snap, last.feed))
        => /\ Returned(last)
           /\ last.stats.new_articles = 1
           /\ last.stats.duplicates_found = 1
           /\ Cardinality({i \in 1..Len(last.dict) :
                               last.dict[i].key = ArticleId(last.feed[1])}) = 1

\* C3: the partition holds an article under its non-empty link; an incoming
\* article without a link whose (title, published) hash equals the stored
\* article's is counted as a duplicate and not inserted.
HeldByLink(d, a) ==
    \E i \in 1..Len(d) :
        /\ Truthy(d[i].key)
        /\ d[i].key = Strip(d[i].val.link)
        /\ TitlePublishedHash(d[i].val) = TitlePublishedHash(a)

C3_IdentityEquivalence ==
    (Stored(last) /\ Len(last.feed) = 1 /\ ~Truthy(Strip(last.feed[1].link))
         /\ LoadExistingData(last.pre.snap).type = "dict"
         /\ HeldByLink(PartitionOf(last.pre.snap), last.feed[1]))
        => (last.new = <<>> /\ last.dup = 1)

\* C4: every entry of the partition before a call is in it, unchanged, after
\* the call; a batch [A', B] on a partition holding A under the link of A'
\* returns new_articles = 1, duplicates_found = 1, total_articles = 2 and
\* leaves A as stored.
EntriesKept(before, after) ==
    \A i \in 1..Len(before) : \E j \in 1..Len(after) : after[j] = before[i]

C4_ExistingPreserved ==
    Stored(last) =>
        /\ LoadExistingData(last.pre.snap).type = "dict"
               => EntriesKept(PartitionOf(last.pre.snap), last.dict)
        /\ EntriesKept(PartitionOf(last.pre.snap), PartitionOf(disk[last.day].snap))
        /\ (Len(last.feed) = 2
                /\ \E i \in 1..Len(PartitionOf(last.pre.snap)) :
                       LET e == PartitionOf(last.pre.snap)[i]
                       IN /\ e.key = ArticleId(last.feed[1])
                          /\ e.val /= last.feed[1]
                /\ Truthy(Strip(last.feed[2].link))
                /\ ArticleId(last.feed[2]) /= ArticleId(last.feed[1])
                /\ NoneStored(last.pre.snap, <<last.feed[2]>>))
               => (Returned(last) /\ last.stats = Stats(1, 1, 2))

\* C5: no snapshot today, two articles A and B with distinct non-empty links:
\* the call returns (2, 0, 2) and afterwards the snapshot holds exactly A and
\* B and the log holds exactly A and B.
C5_FreshDay ==
    (Stored(last) /\ last.pre = Files(NoFile, NoLog) /\ io = IOOk
         /\ Len(last.feed) = 2
         /\ Truthy(Strip(last.feed[1].link)) /\ Truthy(Strip(last.feed[2].link))
         /\ Strip(last.feed[1].link) /= Strip(last.feed[2].link))
        => /\ Returned(last)
           /\ last.stats = Stats(2, 0, 2)
           /\ ValidContent(disk[last.day].snap)
           /\ FileArticles(disk[last.day].snap) = Range(last.feed)
           /\ disk[last.day].log.lines = last.feed

\* C6: today's snapshot is unreadable, not JSON or JSON of an unexpected
\* shape; a call with one article returns new_articles = 1 and leaves a
\* snapshot of valid content.
Corrupt(file) == file.kind \in {"unreadable", "invalid", "scalar"}

C6_CorruptSnapshotNotFatal ==
    (Stored(last) /\ Corrupt(last.pre.snap) /\ io = IOOk /\ Len(last.feed) = 1
         /\ Truthy(Strip(last.feed[1].link)))
        => /\ Returned(last)
           /\ last.stats.new_articles = 1
           /\ ValidContent(disk[last.day].snap)

\* C7: what _save_data wrote for a date, _load_existing_data returns for that
\* date: the same identities with the same articles.
C7_SnapshotRoundTrip ==
    (last.op = "save" /\ Returned(last) /\ loaded.valid /\ loaded.day = last.day)
        => loaded.value = PyDict(last.dict)

\* C8: a call leaves the log as it was plus the call's new articles, each
\* once, in incoming order.
C8_LogAppendOnlyExactlyOnce ==
    (Stored(last) /\ io = IOOk)
        => disk[last.day].log.lines = last.pre.log.lines \o last.new

RetryCounts == -1..MaxRetries
InitialDelays == {1, 2}
BackoffFactors == {1, 2}

RECURSIVE Pow(_, _)
Pow(b, n) == IF n = 0 THEN 1 ELSE b * Pow(b, n - 1)

\* line 198: the values range(max_retries + 1) yields
AttemptRange(max_retries) == 0..max_retries

\* the comparison of line 202 taken one attempt too late
IsLastAttemptOffByOne(attempt, max_retries) == attempt = max_retries + 1

\* line 202
IsLastAttempt(attempt, max_retries) == attempt = max_retries

\* the delay of line 204 growing linearly instead of exponentially
BaseDelayLinear(initial_delay, backoff_factor, attempt) ==
    2 * initial_delay * (IF attempt = 0 THEN 1 ELSE backoff_factor * attempt)

\* line 204, in half seconds: the part without jitter, and the jitter values
\* random.uniform(0, initial_delay * 0.5) is sampled at
BaseDelay(initial_delay, backoff_factor, attempt) ==
    2 * initial_delay * Pow(backoff_factor, attempt)
Jitters(initial_delay) == 0..initial_delay

\* the call is made; the for loop takes its first value or is over at once
RetryStart ==
    /\ rb.pc \in {"idle", "done"}
    /\ \E r \in RetryCounts, d0 \in InitialDelays, b \in BackoffFactors :
           rb' = IF 0 \in AttemptRange(r)
                 THEN Rb("calling", r, d0, b, 0, <<>>, <<>>, "none", 0)
                 ELSE Rb("done", r, d0, b, 0, <<>>, <<>>, "returned_none", 0)
    /\ UNCHANGED <<today, disk, last, prev, loaded, io, fx, px, rc, cu, hx, sx, sch>>

\* lines 199-200: func() returns
RetryFuncReturns ==
    /\ rb.pc = "calling"
    /\ rb' = [rb EXCEPT !.pc = "done", !.outcomes = Append(@, "ok"),
                        !.result = "returned", !.from = Len(rb.outcomes) + 1]
    /\ UNCHANGED <<today, disk, last, prev, loaded, io, fx, px, rc, cu, hx, sx, sch>>

\* lines 201-204: func() raises an Exception
RetryFuncRaises ==
    /\ rb.pc = "calling"
    /\ IF IsLastAttempt(rb.attempt, rb.max_retries)
       THEN rb' = [rb EXCEPT !.pc = "done", !.outcomes = Append(@, "fail"),
                             !.result = "raised", !.from = Len(rb.outcomes) + 1]
       ELSE \E j \in Jitters(rb.initial_delay) :
                rb' = [rb EXCEPT
                          !.pc = "sleeping", !.outcomes = Append(@, "fail"),
                          !.sleeps = Append(@,
                              [base |-> BaseDelay(rb.initial_delay, rb.backoff_factor,
                                                  rb.attempt),
                               jitter |-> j])]
    /\ UNCHANGED <<today, disk, last, prev, loaded, io, fx, px, rc, cu, hx, sx, sch>>

\* func() raises something that is not an Exception (KeyboardInterrupt,
\* SystemExit): `except Exception` does not catch it
RetryFuncInterrupted ==
    /\ rb.pc = "calling"
    /\ rb' = [rb EXCEPT !.pc = "done", !.outcomes = Append(@, "interrupt"),
                        !.result = "raised", !.from = Len(rb.outcomes) + 1]
    /\ UNCHANGED <<today, disk, last, prev, loaded, io, fx, px, rc, cu, hx, sx, sch>>

\* line 206 returns; the for loop takes its next value or is over
RetrySleepOver ==
    /\ rb.pc = "sleeping"
    /\ rb' = IF rb.attempt + 1 \in AttemptRange(rb.max_retries)
             THEN [rb EXCEPT !.pc = "calling", !.attempt = @ + 1]
             ELSE [rb EXCEPT !.pc = "done", !.result = "returned_none"]
    /\ UNCHANGED <<today, disk, last, prev, loaded, io, fx, px, rc, cu, hx, sx, sch>>

NextRetry ==
    \/ RetryStart
    \/ RetryFuncReturns
    \/ RetryFuncRaises
    \/ RetryFuncInterrupted
    \/ RetrySleepOver

SpecRetry == Init /\ [][NextRetry]_vars

AllFailed(q) == \A i \in 1..Len(q) : q[i] = "fail"

\* C10: with max_retries = R the operation is called at most R + 1 times;
\* the call ends at the first success and returns that call's result; when
\* all R + 1 attempts fail the failure of the last attempt is raised; with
\* R = 0 the operation is tried once and its failure raised with no delay.
C10_AttemptCount ==
    /\ Len(rb.outcomes) <= (IF rb.max_retries >= 0 THEN rb.max_retries + 1 ELSE 0)
    /\ \A i \in 1..Len(rb.outcomes) :
           rb.outcomes[i] = "ok"
               => (i = Len(rb.outcomes) /\ rb.pc = "done"
                       /\ rb.result = "returned" /\ rb.from = i)
    /\ rb.result = "returned" => rb.outcomes[Len(rb.outcomes)] = "ok"
    /\ (rb.max_retries >= 0 /\ Len(rb.outcomes) = rb.max_retries + 1
            /\ AllFailed(rb.outcomes))
           => (rb.pc = "done" /\ rb.result = "raised" /\ rb.from = rb.max_retries + 1)
    /\ (rb.max_retries = 0 /\ rb.pc = "done")
           => (Len(rb.outcomes) = 1 /\ rb.sleeps = <<>>
                   /\ (rb.outcomes[1] /= "ok" => rb.result = "raised"))

\* every attempt of a call with two or more retries failed
C10_Witness ==
    /\ rb.pc = "done"
    /\ rb.max_retries >= 2
    /\ Len(rb.outcomes) = rb.max_retries + 1
    /\ AllFailed(rb.outcomes)
    /\ rb.result = "raised"

\* C11: the wait after the k-th failed attempt (k = 0, 1, ...) is
\* initial_delay * backoff_factor^k plus a jitter in [0, initial_delay / 2]
\* (delays are held in half seconds); there is one wait per failed attempt
\* that another attempt follows and none after the last failed attempt; with
\* initial_delay = 1, backoff_factor = 2, max_retries = 3 the parts without
\* jitter are 1, 2, 4 seconds.
C11_BackoffGrowth ==
    /\ \A i \in 1..Len(rb.sleeps) :
           /\ rb.sleeps[i].base =
                  (IF i = 1 THEN 2 * rb.initial_delay
                   ELSE rb.sleeps[i - 1].base * rb.backoff_factor)
           /\ rb.sleeps[i].jitter >= 0
           /\ rb.sleeps[i].jitter <= rb.initial_delay
           /\ rb.outcomes[i] = "fail"
    /\ rb.pc \in {"calling", "sleeping"} => Len(rb.sleeps) = Len(rb.outcomes)
    /\ (rb.pc = "done" /\ rb.outcomes /= <<>>)
           => Len(rb.sleeps) = Len(rb.outcomes) - 1
    /\ (rb.pc = "done" /\ rb.initial_delay = 1 /\ rb.backoff_factor = 2
            /\ rb.max_retries = 3 /\ Len(rb.outcomes) = 4 /\ AllFailed(rb.outcomes))
           => (rb.result = "raised"
                   /\ [i \in 1..3 |-> rb.sleeps[i].base] = <<2, 4, 8>>)

\* initial_delay = 1, backoff_factor = 2, max_retries = 3 and four failures
C11_Witness ==
    /\ rb.pc = "done"
    /\ rb.initial_delay = 1
    /\ rb.backoff_factor = 2
    /\ rb.max_retries = 3
    /\ AllFailed(rb.outcomes)
    /\ Len(rb.sleeps) = 3

\* -------------------------------------------------------------------------
\* RSSFetcher._fetch_raw_content and fetch_feed (src/src/rss_fetcher.py)
\* -------------------------------------------------------------------------
\* What session.get / raise_for_status does on one GET
Responses == {"ok", "timeout", "connection_error", "http_error"}
NetScripts == [1..(MaxRetries + 1) -> Responses]

\* the exception a failed GET raises
ExceptionOf(response) ==
    CASE response = "timeout" -> "Timeout"
      [] response = "connection_error" -> "ConnectionError"
      [] OTHER -> "HTTPError"

RequestExceptions == {"Timeout", "ConnectionError", "HTTPError"}
Exceptions == RequestExceptions \cup {"TypeError"}

\* helpers.py line 182: the parameters retry_with_backoff declares, and
\* rss_fetcher.py lines 117-123: the keywords _fetch_raw_content passes
RetryWithBackoffParams == {"func", "max_retries", "initial_delay", "backoff_factor"}
FetchRetryKeywords ==
    {"func", "max_retries", "initial_delay", "backoff_factor", "logger"}

\* a call binds its keywords only if the function declares each of them;
\* otherwise it raises TypeError before the body runs
AcceptsKeywords(params, keywords) == keywords \subseteq params

\* an except clause that names the request errors only
CatchesRequestErrorsOnly(exc) == exc \in RequestExceptions

\* rss_fetcher.py line 126: except Exception
FetchCatches(exc) == exc \in Exceptions

\* retry_with_backoff run to its end on func = fetch, whose k-th call gets
\* script[k]: the number of GETs made and how the call ended
RECURSIVE RetryWithBackoffRun(_, _, _)
RetryWithBackoffRun(script, max_retries, attempt) ==
    IF attempt \notin AttemptRange(max_retries)
    THEN [gets |-> attempt, result |-> "returned_none", exc |-> "none"]
    ELSE IF script[attempt + 1] = "ok"
    THEN [gets |-> attempt + 1, result |-> "returned", exc |-> "none"]
    ELSE IF IsLastAttempt(attempt, max_retries)
    THEN [gets |-> attempt + 1, result |-> "raised",
          exc |-> ExceptionOf(script[attempt + 1])]
    ELSE RetryWithBackoffRun(script, max_retries, attempt + 1)

\* RSSFetcher._fetch_raw_content: [gets, content, raised]
FetchRawContent(script, max_retries) ==
    LET r == IF AcceptsKeywords(RetryWithBackoffParams, FetchRetryKeywords)
             THEN RetryWithBackoffRun(script, max_retries, 0)
             ELSE [gets |-> 0, result |-> "raised", exc |-> "TypeError"]
    IN IF r.result = "raised"
       THEN IF FetchCatches(r.exc)
            THEN [gets |-> r.gets, content |-> "None", raised |-> "none"]
            ELSE [gets |-> r.gets, content |-> "None", raised |-> r.exc]
       ELSE [gets |-> r.gets,
             content |-> IF r.result = "returned" THEN "text" ELSE "None",
             raised |-> "none"]

\* RSSFetcher.fetch_feed: [gets, result, raised]; parser is "none" (not
\* injected), "ok" or "raises" (parse_rss raises)
FetchFeed(script, max_retries, parser) ==
    LET raw == FetchRawContent(script, max_retries)
    IN IF raw.raised /= "none"
       THEN [gets |-> raw.gets, result |-> "None", raised |-> raw.raised]
       ELSE IF raw.content = "None" \/ parser /= "ok"
       THEN [gets |-> raw.gets, result |-> "None", raised |-> "none"]
       ELSE [gets |-> raw.gets, result |-> "feed", raised |-> "none"]

FetchRetryCounts == 0..MaxRetries

\* fetcher.fetch_feed(keyword)
FetchFeedCall ==
    /\ fx.op = "none"
    /\ \E script \in NetScripts, r \in FetchRetryCounts, parser \in {"none", "ok", "raises"} :
           \E f \in {FetchFeed(script, r, parser)} :
               fx' = Fx("fetch_feed", script, r, parser, f.gets, f.result, f.raised)
    /\ UNCHANGED <<today, disk, last, prev, loaded, io, rb, px, rc, cu, hx, sx, sch>>

\* fetcher._fetch_raw_content(url)
FetchRawContentCall ==
    /\ fx.op = "none"
    /\ \E script \in NetScripts, r \in FetchRetryCounts :
           \E f \in {FetchRawContent(script, r)} :
               fx' = Fx("_fetch_raw_content", script, r, "none", f.gets, f.content,
                        f.raised)
    /\ UNCHANGED <<today, disk, last, prev, loaded, io, rb, px, rc, cu, hx, sx, sch>>

NextFetch == FetchFeedCall \/ FetchRawContentCall

SpecFetch == InitQuiet /\ [][NextFetch]_vars

\* the GETs a call with this max_retries can make all fail
AllGetsFail(script, max_retries) == \A i \in 1..(max_retries + 1) : script[i] /= "ok"

C13_FetcherRetriesToSuccess ==
    fx.op = "_fetch_raw_content" =>
        \A k \in 0..fx.max_retries :
            ((\A i \in 1..k : fx.script[i] /= "ok") /\ fx.script[k + 1] = "ok")
                => (fx.gets = k + 1 /\ fx.result = "text")

\* -------------------------------------------------------------------------
\* helpers.py: create_article_hash, normalize_date, clean_text
\* -------------------------------------------------------------------------
\* the hash without the two strip() calls
CreateArticleHashUntrimmed(title, pub_date) ==
    Sha256Hex(title \o <<"|">> \o pub_date)

\* create_article_hash (lines 116-134)
CreateArticleHash(title, pub_date) ==
    Sha256Hex(Strip(title) \o <<"|">> \o Strip(pub_date))

\* Date strings of a feed. A date string is one symbol here; white space
\* around it is kept as separate characters.
DateRfcGmt == <<"Mon, 01 Jan 2024 10:00:00 GMT">>
DateIsoZ == <<"2024-01-01T10:00:00Z">>
DateRfcIst == <<"Mon, 01 Jan 2024 15:30:00 +0530">>
DateBad == <<"soon">>

\* dateutil.parser.parse: the wall-clock fields of the datetime it returns
\* (tzinfo is kept aside, not applied), and the instant the string denotes;
\* ValueError for a string that is not a date. White space around the date
\* is ignored by the parser.
DateutilParse(date_string) ==
    LET d == Strip(date_string)
    IN CASE d = DateRfcGmt -> [ok |-> TRUE, wall |-> "2024-01-01T10:00:00", instant |-> 1]
         [] d = DateIsoZ -> [ok |-> TRUE, wall |-> "2024-01-01T10:00:00", instant |-> 1]
         [] d = DateRfcIst -> [ok |-> TRUE, wall |-> "2024-01-01T15:30:00", instant |-> 1]
         [] OTHER -> [ok |-> FALSE, wall |-> "", instant |-> 0]

\* strftime("%Y-%m-%dT%H:%M:%SZ"): the wall-clock fields followed by a
\* literal Z
Strftime(wall) ==
    CASE wall = "2024-01-01T10:00:00" -> <<"2024-01-01T10:00:00Z">>
      [] wall = "2024-01-01T15:30:00" -> <<"2024-01-01T15:30:00Z">>

\* normalize_date (lines 52-78)
NormalizeDate(date_string) ==
    IF ~Truthy(date_string) \/ ~Truthy(Strip(date_string)) THEN Empty
    ELSE LET parsed_date == DateutilParse(date_string)
         IN IF parsed_date.ok THEN Strftime(parsed_date.wall)
            ELSE Strip(date_string)

\* Markup in a snippet: a tag or an entity is one symbol
HtmlTags == {"<b>", "</b>"}
HtmlEntities == {"&amp;"}

\* re.sub(r'<[^>]+>', ' ', ...) and re.sub(r'&[a-zA-Z0-9#]+;', ' ', ...)
BlankMarkup(text) ==
    [i \in 1..Len(text) |->
        IF text[i] \in HtmlTags \cup HtmlEntities THEN " " ELSE text[i]]

\* re.sub(r'\s+', ' ', ...)
RECURSIVE CollapseWhitespace(_)
CollapseWhitespace(text) ==
    IF Len(text) < 2 THEN text
    ELSE IF text[1] \in WS /\ text[2] \in WS THEN CollapseWhitespace(Tail(text))
    ELSE <<text[1]>> \o CollapseWhitespace(Tail(text))

\* clean_text (lines 81-114)
CleanText(text, max_length) ==
    IF ~Truthy(text) THEN Empty
    ELSE LET cleaned == CollapseWhitespace(Strip(BlankMarkup(text)))
         IN IF max_length /= 0 /\ Len(cleaned) > max_length
            THEN RStrip(SubSeq(cleaned, 1, max_length)) \o <<".", ".", ".">>
            ELSE cleaned

\* -------------------------------------------------------------------------
\* RSSParser (src/src/rss_parser.py)
\* -------------------------------------------------------------------------
SnippetMaxLength == 300
MinTitleLength == 10

\* A feed entry as feedparser hands it over; raises: reading the entry's
\* fields raises (a tag without a term, a field that is not a str)
FeedEntry(t, l, p, s, raises) ==
    [title |-> t, link |-> l, published |-> p, summary |-> s, raises |-> raises]

Title9 == <<"a", "b", "c", "d", "e", "f", "g", "h", "i">>
Title10 == Title9 \o <<"j">>
Markup == <<"<b>", "s", "</b>", " ", "&amp;", "s">>

Entries ==
    {FeedEntry(Title10, <<"k">>, DateRfcGmt, Markup, FALSE),
     FeedEntry(Title9, <<"m">>, DateRfcGmt, Empty, FALSE),
     FeedEntry(<<" ">> \o Title9 \o <<" ">>, <<"n">>, DateIsoZ, Empty, FALSE),
     FeedEntry(<<" ">> \o Title10, <<" ", "o">>, <<" ">> \o DateRfcGmt, Empty, FALSE),
     FeedEntry(Title10, Empty, DateRfcGmt, Empty, FALSE),
     FeedEntry(Title10, Empty, DateIsoZ, Empty, FALSE),
     FeedEntry(Title10, Empty, DateRfcIst, Empty, FALSE),
     FeedEntry(Title10, <<" ">>, DateBad, Empty, FALSE),
     FeedEntry(Empty, <<"q">>, Empty, Empty, FALSE),
     FeedEntry(Title10, <<"r">>, DateRfcGmt, Empty, TRUE)}

EntryFeeds == SeqsUpTo(Entries, MaxEntries)
FeedLinks == {Empty, <<"f">>}

\* RSSParser._extract_article_data (lines 71-141)
ExtractArticleData(entry) ==
    LET title == Strip(entry.title)
        link == Strip(entry.link)
        published == entry.published
        snippet == CleanText(entry.summary, SnippetMaxLength)
        id_hash == CreateArticleHash(title, published)
    IN [title |-> title, link |-> link, published |-> NormalizeDate(published),
        source |-> Empty, snippet |-> snippet, id_hash |-> id_hash]

\* the length test of _is_valid_article with the bound off by one
TitleTooShortBelow9(title) == Len(title) < MinTitleLength - 1

\* line 163: len(title) < 10
TitleTooShort(title) == Len(title) < MinTitleLength

\* RSSParser._is_valid_article (lines 143-167)
IsValidArticle(article) ==
    IF ~Truthy(Strip(article.title)) THEN FALSE
    ELSE IF ~Truthy(Strip(article.link)) /\ ~Truthy(Strip(article.id_hash)) THEN FALSE
    ELSE IF TitleTooShort(Strip(article.title)) THEN FALSE
    ELSE TRUE

\* one except clause that lets the exception of an entry through
EntryPropagates(raises) == raises

\* line 56: except Exception inside the loop; does the exception leave it
EntryExceptionEscapes(raises) == FALSE

\* lines 51-58: the loop over feed.entries from position i on
RECURSIVE ExtractArticles(_, _, _)
ExtractArticles(entries, i, acc) ==
    IF i > Len(entries) THEN acc
    ELSE IF entries[i].raises
    THEN IF EntryExceptionEscapes(entries[i].raises)
         THEN [acc EXCEPT !.raised = TRUE]
         ELSE ExtractArticles(entries, i + 1, acc)
    ELSE LET article == ExtractArticleData(entries[i])
         IN IF IsValidArticle(article)
            THEN ExtractArticles(entries, i + 1,
                     [acc EXCEPT !.articles = Append(@, article),
                                 !.kept = Append(@, i)])
            ELSE ExtractArticles(entries, i + 1, acc)

\* RSSParser.parse_rss (lines 22-69)
ParseRss(entries, feed_link) ==
    IF entries = <<>>
    THEN [source_url |-> Empty, articles |-> <<>>, kept |-> <<>>, raised |-> FALSE]
    ELSE LET r == ExtractArticles(entries, 1,
                      [articles |-> <<>>, kept |-> <<>>, raised |-> FALSE])
         IN IF r.raised
            THEN [source_url |-> Empty, articles |-> <<>>, kept |-> <<>>, raised |-> TRUE]
            ELSE [source_url |-> feed_link, articles |-> r.articles, kept |-> r.kept,
                  raised |-> FALSE]

\* parser.parse_rss(rss_content, query)
ParseRssCall ==
    /\ px.op = "none"
    /\ \E entries \in EntryFeeds, feed_link \in FeedLinks :
           \E r \in {ParseRss(entries, feed_link)} :
               px' = Px("parse_rss", entries, feed_link, r.source_url, r.articles,
                        r.kept, r.raised)
    /\ UNCHANGED <<today, disk, last, prev, loaded, io, rb, fx, rc, cu, hx, sx, sch>>

NextParse == ParseRssCall

SpecParse == InitQuiet /\ [][NextParse]_vars

\* the entry an article of the result was extracted from
EntryOf(k) == px.entries[px.kept[k]]

\* C14: every article of the result has a trimmed title of at least 10
\* characters and a non-empty link or id_hash; an entry whose trimmed title
\* has 9 characters is dropped, one with 10 characters, a link and a date
\* that does not raise is kept; the articles are in the order of their entries.
C14_ValidityFilter ==
    px.op = "parse_rss" =>
        /\ \A k \in 1..Len(px.articles) :
               /\ Len(Strip(px.articles[k].title)) >= 10
               /\ px.articles[k].link /= Empty \/ px.articles[k].id_hash /= Empty
        /\ Len(px.kept) = Len(px.articles)
        /\ \A k \in 1..Len(px.kept) :
               /\ px.kept[k] \in 1..Len(px.entries)
               /\ px.articles[k].title = Strip(EntryOf(k).title)
               /\ px.articles[k].link = Strip(EntryOf(k).link)
               /\ k > 1 => px.kept[k - 1] < px.kept[k]
        /\ \A i \in 1..Len(px.entries) :
               /\ Len(Strip(px.entries[i].title)) = 9 => i \notin Range(px.kept)
               /\ (Len(Strip(px.entries[i].title)) = 10 /\ ~px.entries[i].raises)
                      => i \in Range(px.kept)

\* a feed whose second entry is kept after a first entry of 9 characters
C14_Witness ==
    /\ px.op = "parse_rss"
    /\ Len(px.entries) = 2
    /\ Len(Strip(px.entries[1].title)) = 9
    /\ Len(px.entries[1].title) > 9
    /\ Len(Strip(px.entries[2].title)) = 10
    /\ px.kept = <<2>>

\* -------------------------------------------------------------------------
\* RSSCollector.run_collection (src/src/main.py)
\* -------------------------------------------------------------------------
\* A keyword term of the feeds configuration: a str or something else
Kw(text) == [is_str |-> TRUE, text |-> text]
NotStr == [is_str |-> FALSE, text |-> Empty]

\* A keyword group: a dict (terms is a list or not), a str, or something else
DictGroup(terms) == [type |-> "dict", terms_is_list |-> TRUE, terms |-> terms, text |-> Empty]
BadTermsGroup == [type |-> "dict", terms_is_list |-> FALSE, terms |-> <<>>, text |-> Empty]
StrGroup(text) == [type |-> "str", terms_is_list |-> FALSE, terms |-> <<>>, text |-> text]
OtherGroup == [type |-> "other", terms_is_list |-> FALSE, terms |-> <<>>, text |-> Empty]

\* config_manager.get_keyword_groups(): the configurations explored
KeywordGroupLists ==
    {<<>>,
     <<DictGroup(<<Kw(<<"a">>), Kw(<<"b">>)>>)>>,
     <<DictGroup(<<Kw(<<"a">>), Kw(<<" ">>), Kw(<<"b">>)>>), DictGroup(<<Kw(<<"c">>)>>)>>,
     <<OtherGroup, DictGroup(<<Kw(<<"a">>)>>), BadTermsGroup, StrGroup(<<"b">>)>>,
     <<StrGroup(<<" ">>), DictGroup(<<>>), DictGroup(<<Kw(<<"a">>), Kw(<<"b">>)>>)>>,
     <<DictGroup(<<NotStr, Kw(<<"a">>)>>), StrGroup(<<"b">>)>>}

\* lines 169-180: the keywords of a group
KeywordsOf(group) ==
    IF group.type = "dict" THEN group.terms
    ELSE IF group.type = "str" /\ Truthy(Strip(group.text)) THEN <<Kw(group.text)>>
    ELSE <<>>

\* line 189: not isinstance(keyword, str) or not keyword.strip()
InvalidKeyword(keyword) == ~keyword.is_str \/ ~Truthy(Strip(keyword.text))

\* The components a collector holds. "as_written": the RSSFetcher of
\* rss_fetcher.py, which has no method fetch_rss. "substitutes": objects that
\* have the methods run_collection calls and answer in any way.
Components == {"as_written", "substitutes"}

Outcome(kind, articles, new) == [kind |-> kind, articles |-> articles, new |-> new]

\* lines 199-237: what the fetch, parse and store calls of one keyword do
KeywordOutcomes(components) ==
    IF components = "as_written" THEN {Outcome("fetch_raises", 0, 0)}
    ELSE {Outcome("fetch_raises", 0, 0), Outcome("fetch_none", 0, 0),
          Outcome("parse_raises", 0, 0), Outcome("parse_empty", 0, 0)}
         \cup {Outcome(k, n, 0) : k \in {"store_raises", "store_invalid"}, n \in 1..MaxParsed}
         \cup UNION {{Outcome("stored", n, m) : m \in 0..n} : n \in 1..MaxParsed}

Raises(outcome) == outcome.kind \in {"fetch_raises", "parse_raises", "store_raises"}

\* the keyword's exception handler missing: the exception reaches the
\* handler of the group
KeywordExceptionLeavesLoop(outcome) == Raises(outcome)

\* lines 246-248: except Exception inside the keyword loop; does the
\* exception of a keyword leave the loop
KeywordExceptionEscapes(outcome) == FALSE

\* lines 264 and 281
SuccessRate(total_keywords, errors) ==
    IF total_keywords > 0 THEN Rate((total_keywords - errors) * 100, total_keywords)
    ELSE Rate(0, 1)

\* lines 199-244 for one valid keyword: the stats after it and whether the
\* pause at the end of the loop body is reached
AfterKeyword(stats, outcome) ==
    LET counted == [stats EXCEPT !.total_keywords = @ + 1]
    IN CASE outcome.kind \in {"fetch_raises", "parse_raises", "store_raises", "fetch_none"} ->
                [stats |-> [counted EXCEPT !.errors = @ + 1], at_pause |-> FALSE]
         [] outcome.kind = "parse_empty" ->
                [stats |-> counted, at_pause |-> FALSE]
         [] outcome.kind = "store_invalid" ->
                [stats |-> [counted EXCEPT !.errors = @ + 1], at_pause |-> TRUE]
         [] OTHER ->
                [stats |-> [counted EXCEPT !.total_articles = @ + outcome.articles,
                                          !.total_new_articles = @ + outcome.new],
                 at_pause |-> TRUE]

\* collector.run_collection(): lines 146-161, and lines 276-282 when the
\* keyword groups cannot be iterated
RunCollectionStart ==
    /\ rc.pc = "idle"
    /\ \E groups \in KeywordGroupLists, components \in Components, iterable \in BOOLEAN :
           IF iterable
           THEN rc' = Rc("group", groups, components, 1, 0, RunStatsInit, <<>>,
                         NoOutcome, FALSE)
           ELSE /\ groups = <<>>
                /\ rc' = Rc("done", groups, components, 1, 0,
                            [RunStatsInit EXCEPT !.errors = 1,
                                                 !.success_rate = SuccessRate(0, 1)],
                            <<>>, Outcome("critical", 0, 0), TRUE)
    /\ UNCHANGED <<today, disk, last, prev, loaded, io, rb, fx, px, cu, hx, sx, sch>>

\* lines 163-185 for the next group, and lines 262-274 after the last one
RunGroupStep ==
    /\ rc.pc = "group"
    /\ LET gi == rc.group_index
           errors == [rc EXCEPT !.stats.errors = @ + 1, !.group_index = @ + 1]
       IN IF gi > Len(rc.keyword_groups)
          THEN rc' = [rc EXCEPT !.pc = "done", !.returned = TRUE,
                                !.stats.success_rate =
                                    SuccessRate(rc.stats.total_keywords, rc.stats.errors)]
          ELSE LET group == rc.keyword_groups[gi]
               IN IF group.type = "other" THEN rc' = errors
                  ELSE IF group.type = "dict" /\ ~group.terms_is_list THEN rc' = errors
                  ELSE IF KeywordsOf(group) = <<>>
                  THEN rc' = [rc EXCEPT !.group_index = @ + 1]
                  ELSE rc' = [rc EXCEPT !.pc = "keyword", !.keyword_index = 1]
    /\ UNCHANGED <<today, disk, last, prev, loaded, io, rb, fx, px, cu, hx, sx, sch>>

\* lines 187-260: the next keyword of the group, or the end of the group
RunKeywordStep ==
    /\ rc.pc = "keyword"
    /\ LET gi == rc.group_index
           ki == rc.keyword_index
           keywords == KeywordsOf(rc.keyword_groups[gi])
       IN IF ki > Len(keywords)
          THEN rc' = [rc EXCEPT !.pc = "group", !.group_index = @ + 1,
                                !.trace = IF gi < Len(rc.keyword_groups)
                                          THEN Append(@, <<"group_pause", gi, 0>>)
                                          ELSE @]
          ELSE IF InvalidKeyword(keywords[ki])
          THEN rc' = [rc EXCEPT !.stats.errors = @ + 1, !.keyword_index = @ + 1]
          ELSE \E outcome \in KeywordOutcomes(rc.components) :
                   LET after == AfterKeyword(rc.stats, outcome)
                       tried == Append(rc.trace, <<"keyword", gi, ki>>)
                   IN IF Raises(outcome) /\ KeywordExceptionEscapes(outcome)
                      THEN rc' = [rc EXCEPT !.pc = "group", !.group_index = @ + 1,
                                            !.stats = after.stats,
                                            !.trace = tried, !.outcome = outcome]
                      ELSE rc' = [rc EXCEPT
                                     !.keyword_index = @ + 1,
                                     !.stats = after.stats,
                                     !.outcome = outcome,
                                     !.trace = IF after.at_pause /\ ki < Len(keywords)
                                               THEN Append(tried, <<"keyword_pause", gi, ki>>)
                                               ELSE tried]
    /\ UNCHANGED <<today, disk, last, prev, loaded, io, rb, fx, px, cu, hx, sx, sch>>

NextRun == RunCollectionStart \/ RunGroupStep \/ RunKeywordStep

\* the thread that runs run_collection keeps running: every pause ends
SpecRun ==
    InitQuiet /\ [][NextRun]_vars /\ WF_vars(RunGroupStep \/ RunKeywordStep)

\* the keywords attempted so far, in order
Attempted == SelectSeq(rc.trace, LAMBDA e : e[1] = "keyword")

\* the valid keywords of a configuration in configuration order: the str
\* terms that are not blank, of the dict groups whose terms are a list and
\* of the str groups
ValidKeywordsFrom(groups, g, k) ==
    LET RECURSIVE From(_, _)
        From(gg, kk) ==
            IF gg > Len(groups) THEN <<>>
            ELSE LET group == groups[gg]
                     terms == IF group.type = "dict" /\ group.terms_is_list
                              THEN group.terms
                              ELSE IF group.type = "str" THEN <<Kw(group.text)>>
                              ELSE <<>>
                 IN IF kk > Len(terms) THEN From(gg + 1, 1)
                    ELSE IF terms[kk].is_str /\ Strip(terms[kk].text) /= Empty
                    THEN <<<<"keyword", gg, kk>>>> \o From(gg, kk + 1)
                    ELSE From(gg, kk + 1)
    IN From(g, k)

IsPrefix(a, b) == Len(a) <= Len(b) /\ a = SubSeq(b, 1, Len(a))

\* C15: whatever fails for a keyword, the run goes on: at every moment the
\* keywords attempted are an initial part of the valid keywords in
\* configuration order, at the end they are all of them, each once; and every
\* run that has started ends by returning its statistics.
C15_KeywordIsolation ==
    /\ [](/\ IsPrefix(Attempted, ValidKeywordsFrom(rc.keyword_groups, 1, 1))
          /\ rc.pc = "done" =>
                 /\ Attempted = ValidKeywordsFrom(rc.keyword_groups, 1, 1)
                 /\ rc.returned
                 /\ rc.stats.total_keywords = Len(Attempted))
    /\ (rc.pc /= "idle") ~> (rc.pc = "done" /\ rc.returned)

\* a run over two keywords that ended after the first one failed and the
\* second one was stored
C15_Witness ==
    /\ rc.pc = "done"
    /\ Len(Attempted) = 2
    /\ rc.stats.errors = 1
    /\ rc.stats.total_new_articles = 1
    /\ rc.outcome.kind = "stored"
    /\ Len(rc.keyword_groups) = 1

FileName(stem, suffix) == [stem |-> stem, suffix |-> suffix]

FileDays == 1..MaxFileDay
Suffixes == {".json", ".jsonl"}

\* <date>.json and <date>.jsonl of each day, a copy 1.bak.json of the first
\* day's snapshot, index.json and <date>.txt
FileNames ==
    {FileName(d, x) : d \in FileDays, x \in Suffixes}
        \cup {FileName(1, ".bak.json"), FileName(0, ".json"), FileName(1, ".txt")}

\* line 311: filename.endswith('.json') or filename.endswith('.jsonl')
EndsWithJson(name) == name.suffix \in {".json", ".jsonl", ".bak.json"}

\* lines 314-317: filename.split('.')[0] parsed with '%Y-%m-%d'; ValueError
\* when it is not a date
IsDate(stem) == stem /= 0

\* lines 306 and 319: file_date < datetime.now() - timedelta(days), in half
\* days: a date is its midnight, now is midnight (half 0) or noon (half 1)
BeforeCutoff(stem, now, half, days_to_keep) ==
    2 * stem < 2 * now + half - 2 * days_to_keep

\* the names the loop calls os.remove on, if it gets to them
RemovalTargets(dir, now, half, days_to_keep) ==
    {name \in dir : /\ EndsWithJson(name)
                    /\ IsDate(name.stem)
                    /\ BeforeCutoff(name.stem, now, half, days_to_keep)}

\* lines 308-329: the sets of names the loop can have removed when it ends.
\* os.listdir gives the names in any order, and the first os.remove that
\* raises OSError ends the loop (line 328).
RemovedSets(dir, failing, now, half, days_to_keep) ==
    LET targets == RemovalTargets(dir, now, half, days_to_keep)
    IN IF targets \cap failing = {} THEN {targets}
       ELSE SUBSET (targets \ failing)

CleanupNows == {MaxFileDay + 1}

\* storage_manager.cleanup_old_files(days_to_keep)
CleanupOldFilesCall ==
    /\ cu.op = "none"
    /\ \E exists \in BOOLEAN, dir \in SUBSET FileNames, now \in CleanupNows,
          half \in {0, 1}, days_to_keep \in 0..MaxKeep :
           \E failing \in {{}} \cup {{name} : name \in dir} :
               /\ exists \/ dir = {}
               /\ IF ~exists
                  THEN cu' = Cu("cleanup", exists, dir, failing, now, half,
                                days_to_keep, dir, 0)
                  ELSE \E removed \in RemovedSets(dir, failing, now, half, days_to_keep) :
                           cu' = Cu("cleanup", exists, dir, failing, now, half,
                                    days_to_keep, dir \ removed, Cardinality(removed))
    /\ UNCHANGED <<today, disk, last, prev, loaded, io, rb, fx, px, rc, hx, sx, sch>>

NextCleanup == CleanupOldFilesCall

SpecCleanup == InitQuiet /\ [][NextCleanup]_vars

\* the snapshot or log of a day: <date>.json or <date>.jsonl
IsPartitionFile(name) == name.stem \in FileDays /\ name.suffix \in Suffixes

\* C17: cleanup_old_files removes exactly the snapshots and logs whose date is
\* before now minus days_to_keep days, leaves every other file, returns the
\* number of files removed, and removes both files of a day or neither. A
\* file that os.remove refuses to remove is not held against the call.
C17_Retention ==
    cu.op = "cleanup" =>
        LET old == {name \in cu.dir :
                        /\ IsPartitionFile(name)
                        /\ 2 * name.stem < 2 * (cu.now - cu.days_to_keep) + cu.half}
        IN /\ cu.after = cu.dir \ (old \ cu.failing)
           /\ cu.removed_count = Cardinality(old \ cu.failing)
           /\ \A d \in FileDays :
                  ({FileName(d, ".json"), FileName(d, ".jsonl")} \subseteq cu.dir
                       /\ {FileName(d, ".json"), FileName(d, ".jsonl")} \cap cu.failing = {})
                      => (FileName(d, ".json") \in cu.after
                              <=> FileName(d, ".jsonl") \in cu.after)

\* -------------------------------------------------------------------------
\* create_article_hash called on its own
\* -------------------------------------------------------------------------
HashTitles ==
    {Empty, <<"t">>, <<" ", "t">>, <<"t", " ">>, <<" ", "t", " ">>, <<"t", " ", "u">>,
     <<"u">>}
HashDates ==
    {Empty, <<" ">>, DateRfcGmt, <<" ">> \o DateRfcGmt, DateRfcGmt \o <<" ">>, DateIsoZ}

\* create_article_hash(title, pub_date), twice in a behaviour
CreateArticleHashCall ==
    /\ hx.calls < 2
    /\ \E title \in HashTitles, pub_date \in HashDates :
           hx' = [calls |-> hx.calls + 1, earlier |-> hx.latest,
                  latest |-> HashCall(title, pub_date, CreateArticleHash(title, pub_date))]
    /\ UNCHANGED <<today, disk, last, prev, loaded, io, rb, fx, px, rc, cu, sx, sch>>

NextHash == CreateArticleHashCall

SpecHash == InitQuiet /\ [][NextHash]_vars

\* C18: two calls whose titles are equal after trimming and whose published
\* strings are equal after trimming return the same digest; in particular
\* equal inputs give equal digests and white space around an input does not
\* change the digest.
C18_HashTrimInsensitive ==
    (hx.calls = 2
         /\ Strip(hx.earlier.title) = Strip(hx.latest.title)
         /\ Strip(hx.earlier.pub_date) = Strip(hx.latest.pub_date))
        => hx.earlier.digest = hx.latest.digest

\* two calls that differ in the white space around both inputs
C18_Witness ==
    /\ hx.calls = 2
    /\ hx.earlier.title = <<"t">> /\ hx.latest.title = <<" ", "t", " ">>
    /\ hx.earlier.pub_date = DateRfcGmt /\ hx.latest.pub_date = <<" ">> \o DateRfcGmt
    /\ hx.earlier.digest = hx.latest.digest

\* -------------------------------------------------------------------------
\* id_hash and published of the extracted articles
\* -------------------------------------------------------------------------
\* two published strings that are written differently and denote one instant
SameInstantOtherFormat(p, q) ==
    /\ Strip(p) /= Strip(q)
    /\ DateutilParse(p).ok /\ DateutilParse(q).ok
    /\ DateutilParse(p).instant = DateutilParse(q).instant

\* the loop of store_feed_data on an empty partition takes both articles as new
BothNew(a, b) == ProcessArticles(EmptyAcc, <<a, b>>).new = <<a, b>>

\* C19: the id_hash of an extracted article is the hash of the entry's title
\* and of its published string as the feed gives it, and its published field
\* is the normalized date; two entries of one title whose published strings
\* are written differently for one instant get different id_hash values and
\* equal published fields, and when they have no link the second is stored as
\* a new article after the first.
C19_HashBeforeNormalization ==
    px.op = "parse_rss" =>
        /\ \A k \in 1..Len(px.articles) :
               /\ px.articles[k].id_hash =
                      Sha256Hex(Strip(EntryOf(k).title) \o <<"|">>
                                    \o Strip(EntryOf(k).published))
               /\ px.articles[k].published = NormalizeDate(EntryOf(k).published)
        /\ \A j, k \in 1..Len(px.articles) :
               (/\ j < k
                /\ px.articles[j].title = px.articles[k].title
                /\ SameInstantOtherFormat(EntryOf(j).published, EntryOf(k).published))
                   => /\ px.articles[j].id_hash /= px.articles[k].id_hash
                      /\ px.articles[j].published = px.articles[k].published
                      /\ (px.articles[j].link = Empty /\ px.articles[k].link = Empty)
                             => BothNew(px.articles[j], px.articles[k])

\* -------------------------------------------------------------------------
\* Feeds without a usable entry
\* -------------------------------------------------------------------------
\* an entry that is extracted and passes the validity filter
Usable(entry) == ~entry.raises /\ Len(Strip(entry.title)) >= 10

InsertedKey(article) == ProcessArticles(EmptyAcc, <<article>>).dict[1].key

\* C22: an extracted article without a link is looked up and inserted by
\* store_feed_data under its id_hash, so two such articles are one identity
\* exactly when their id_hash fields are equal.
C22_LinklessIdentityIsIdHash ==
    px.op = "parse_rss" =>
        /\ \A k \in 1..Len(px.articles) :
               px.articles[k].link = Empty =>
                   /\ ArticleId(px.articles[k]) = px.articles[k].id_hash
                   /\ InsertedKey(px.articles[k]) = px.articles[k].id_hash
        /\ \A j, k \in 1..Len(px.articles) :
               (px.articles[j].link = Empty /\ px.articles[k].link = Empty)
                   => (px.articles[j].id_hash = px.articles[k].id_hash
                           <=> ArticleId(px.articles[j]) = ArticleId(px.articles[k]))

\* -------------------------------------------------------------------------
\* Articles without any basis for an identity
\* -------------------------------------------------------------------------
Unidentifiable(a) ==
    Strip(a.link) = Empty /\ Strip(a.title) = Empty /\ Strip(a.published) = Empty

\* C23: a call whose incoming articles all lack link, title and published
\* counts each of them as a duplicate, inserts none into the partition and
\* writes nothing to the snapshot or the log. (Whether the call returns is
\* not asked for here.)
C23_UnidentifiableSkipped ==
    (/\ Stored(last)
     /\ last.pre.snap.kind \in {"absent", "object"}
     /\ last.feed /= <<>>
     /\ \A i \in 1..Len(last.feed) : Unidentifiable(last.feed[i]))
        => /\ last.dup = Len(last.feed)
           /\ last.new = <<>>
           /\ last.dict = PartitionOf(last.pre.snap)
           /\ disk[last.day] = last.pre


\* C24: a call whose articles are all duplicates or skipped (an empty list
\* included) leaves today's snapshot and log as they were and creates
\* neither; a call with at least one new article rewrites the snapshot with
\* the whole partition and appends its new articles to the log, and when the
\* append is refused the snapshot has been rewritten already.
C24_NoWriteWithoutNewArticles ==
    /\ (Stored(last) /\ last.pre.snap.kind \in {"absent", "object"} /\ last.new = <<>>)
           => disk[last.day] = last.pre
    /\ (Stored(last) /\ last.pre.snap.kind \in {"absent", "object"} /\ last.new /= <<>>
            /\ io = IOOk)
           => /\ ValidContent(disk[last.day].snap)
              /\ FileArticles(disk[last.day].snap) = Range(Values(last.dict))
              /\ disk[last.day].log = Log(TRUE, last.pre.log.lines \o last.new)
    /\ (Stored(last) /\ last.pre.snap.kind \in {"absent", "object"} /\ last.new /= <<>>
            /\ io.save = "ok" /\ io.append = "open_fails")
           => /\ FileArticles(disk[last.day].snap) = Range(Values(last.dict))
              /\ disk[last.day].log = last.pre.log

\* C25: a call on day D+1 with an article that the snapshot of day D holds,
\* the partition of day D+1 being empty, returns it as new and stores it in
\* the files of day D+1.
HeldOnDayBefore(call) ==
    /\ call.day > 1
    /\ call.feed /= <<>>
    /\ \A i \in 1..Len(call.feed) :
           call.feed[i] \in FileArticles(disk[call.day - 1].snap)

C25_DedupScopedToOneDay ==
    (Stored(last) /\ HeldOnDayBefore(last) /\ DistinctIdentities(last.feed)
         /\ last.pre = Files(NoFile, NoLog))
        => /\ Returned(last)
           /\ last.stats.new_articles = Len(last.feed)
           /\ FileArticles(disk[last.day].snap) = Range(last.feed)

\* the frame of C25: a call on one day leaves the files of every other day
StoreLeavesOtherDays ==
    [][\A d \in Days : d /= today => disk'[d] = disk[d]]_vars


\* C26: in a finished run, between two keywords processed one after the
\* other the pause is taken whatever the earlier keyword's outcome: the
\* keyword pause inside a group, the group pause between groups; and no
\* keyword pause follows the last keyword of a group, no group pause the last
\* group.
C26_PausesBetween ==
    rc.pc = "done" =>
        /\ \A i \in 1..(Len(rc.trace) - 1) :
               (rc.trace[i][1] = "keyword" /\ rc.trace[i + 1][1] = "keyword") => FALSE
        /\ \A i \in 1..(Len(rc.trace) - 2) :
               (rc.trace[i][1] = "keyword" /\ rc.trace[i + 2][1] = "keyword")
                   => rc.trace[i + 1][1] = IF rc.trace[i][2] = rc.trace[i + 2][2]
                                           THEN "keyword_pause" ELSE "group_pause"
        /\ \A i \in 1..Len(rc.trace) :
               /\ rc.trace[i][1] = "keyword_pause"
                      => rc.trace[i][3] < Len(KeywordsOf(rc.keyword_groups[rc.trace[i][2]]))
               /\ rc.trace[i][1] = "group_pause"
                      => rc.trace[i][2] < Len(rc.keyword_groups)


\* C29: the statistics a run returns have errors <= total_keywords, a
\* success rate between 0 and 100 and total_new_articles <= total_articles;
\* and total_new_articles grows by new_articles with every store call that
\* returns, and with nothing else.
RateInRange(rate) == 0 <= rate.num /\ rate.num <= 100 * rate.den

ThreadFeeds == SeqsUpTo({ArtA, ArtB}, MaxBatch)

\* a thread enters store_feed_data: lines 177-180
StoreThreadStart(t) ==
    /\ sx.th[t].pc = "idle"
    /\ \E articles \in ThreadFeeds :
           sx' = [sx EXCEPT !.th[t] = Th("load", today, articles, EmptyAcc, "none", NoStats)]
    /\ UNCHANGED <<today, disk, last, prev, loaded, io, rb, fx, px, rc, cu, hx, sch>>

\* the thread's next step: the load of line 182 with the loop of lines
\* 185-222; line 227 with the save of line 229; the append of line 232; the
\* statistics of lines 235-245
StoreThreadStep(t) ==
    LET th == sx.th[t]
        End(outcome, stats) == [th EXCEPT !.pc = "done", !.outcome = outcome,
                                          !.stats = stats]
    IN /\ th.pc \in {"load", "persist", "append", "stats"}
       /\ CASE th.pc = "load" ->
                   LET data == LoadExistingData(disk[th.day].snap)
                   IN /\ sx' = [sx EXCEPT
                                   !.th[t] = IF data.type /= "dict"
                                             THEN End("AttributeError", NoStats)
                                             ELSE [th EXCEPT
                                                      !.pc = "persist",
                                                      !.acc = ProcessArticles(
                                                          [dict |-> data.items,
                                                           links |-> ExistingLinks(data.items),
                                                           hashes |-> ExistingHashes(data.items),
                                                           new |-> <<>>, dup |-> 0],
                                                          th.feed)],
                                   !.order = Append(@, <<t, "load">>)]
                      /\ UNCHANGED disk
            [] th.pc = "persist" ->
                   IF ~NameResolves("new_articles")
                   THEN /\ sx' = [sx EXCEPT !.th[t] = End("NameError", NoStats)]
                        /\ UNCHANGED disk
                   ELSE IF th.acc.new = <<>>
                   THEN /\ sx' = [sx EXCEPT !.th[t].pc = "stats"]
                        /\ UNCHANGED disk
                   ELSE LET s == SaveData(disk[th.day].snap, th.acc.dict, io)
                        IN /\ disk' = [disk EXCEPT ![th.day].snap = s.file]
                           /\ sx' = [sx EXCEPT
                                        !.th[t] = IF s.raised THEN End("OSError", NoStats)
                                                  ELSE [th EXCEPT !.pc = "append"],
                                        !.order = Append(@, <<t, "save">>)]
            [] th.pc = "append" ->
                   LET a == AppendJsonl(disk[th.day].log, th.acc.new, io)
                   IN /\ disk' = [disk EXCEPT ![th.day].log = a.log]
                      /\ sx' = [sx EXCEPT
                                   !.th[t] = IF a.raised THEN End("OSError", NoStats)
                                             ELSE [th EXCEPT !.pc = "stats"],
                                   !.order = Append(@, <<t, "append">>)]
            [] OTHER ->
                   /\ sx' = [sx EXCEPT
                                !.th[t] = IF ~NameResolves("articles")
                                          THEN End("NameError", NoStats)
                                          ELSE End("returned",
                                                   Stats(Len(th.acc.new), th.acc.dup,
                                                         Len(th.feed)))]
                   /\ UNCHANGED disk
       /\ UNCHANGED <<today, last, prev, loaded, io, rb, fx, px, rc, cu, hx, sch>>

NextThreads == \E t \in Threads : StoreThreadStart(t) \/ StoreThreadStep(t)

SpecThreads == InitQuiet /\ [][NextThreads]_vars

\* C27: two calls with new articles of different identities, each having
\* loaded the snapshot before the other rewrote it: when both are over, one
\* of them returned an article as new that the snapshot does not hold and the
\* log does.
BothLoadedFirst ==
    /\ Len(sx.order) >= 2
    /\ sx.order[1][2] = "load" /\ sx.order[2][2] = "load"
    /\ sx.order[1][1] /= sx.order[2][1]

Lost(t, article) ==
    /\ sx.th[t].outcome = "returned"
    /\ sx.th[t].stats.new_articles >= 1
    /\ article \notin FileArticles(disk[sx.th[t].day].snap)
    /\ article \in Range(disk[sx.th[t].day].log.lines)

C27_LostUpdate ==
    (/\ \A t \in Threads : sx.th[t].pc = "done"
     /\ BothLoadedFirst
     /\ \A t \in Threads : sx.th[t].acc.new /= <<>>
     /\ Identities(sx.th[1].feed) \cap Identities(sx.th[2].feed) = {})
        => \E t \in Threads : \E k \in 1..Len(sx.th[t].acc.new) :
               Lost(t, sx.th[t].acc.new[k])


DigitChars == <<"0", "1", "2", "3", "4", "5", "6", "7", "8", "9">>
IsDigit(c) == \E i \in 1..10 : DigitChars[i] = c
DigitValue(c) == (CHOOSE i \in 1..10 : DigitChars[i] = c) - 1
Number(ds) == IF Len(ds) = 1 THEN DigitValue(ds[1])
              ELSE 10 * DigitValue(ds[1]) + DigitValue(ds[2])

\* line 96: datetime.strptime(time_str, "%H:%M") does not raise ValueError
StrptimeAccepts(time_str) ==
    \E p \in 1..Len(time_str) :
        LET hh == SubSeq(time_str, 1, p - 1)
            mm == SubSeq(time_str, p + 1, Len(time_str))
        IN /\ time_str[p] = ":"
           /\ Len(hh) \in {1, 2} /\ Len(mm) \in {1, 2}
           /\ \A k \in 1..Len(hh) : IsDigit(hh[k])
           /\ \A k \in 1..Len(mm) : IsDigit(mm[k])
           /\ Number(hh) <= 23 /\ Number(mm) <= 59

\* the schedule.times of the settings explored
TimeLists ==
    {<<>>,
     <<<<"0", "5", ":", "0", "0">>>>,
     <<<<"2", "5", ":", "0", "0">>>>,
     <<<<"0", "5", ":", "0", "0">>, <<"1", "4", ":", "0", "0">>>>,
     <<<<"5", "p", "m">>, <<"0", "5", ":", "6", "0">>, <<"0", "5", ":", "0", "0">>>>}

\* lines 93-102: the jobs start() registers
RegisteredJobs(times) == Cardinality({k \in 1..Len(times) : StrptimeAccepts(times[k])})

Created == {i \in LoopThreads : sch.loop[i] /= "unborn"}
Alive == {i \in LoopThreads : sch.loop[i] \in {"check", "pending", "job"}}

\* Scheduler(times, collection_job_func): lines 23-47
SchedulerNew ==
    /\ ~sch.built
    /\ \E times \in TimeLists : sch' = [SchIdle EXCEPT !.built = TRUE, !.times = times]
    /\ UNCHANGED <<today, disk, last, prev, loaded, io, rb, fx, px, rc, cu, hx, sx>>

\* scheduler.start(): lines 79-121
SchedulerStart ==
    /\ sch.built /\ sch.main = "idle"
    /\ IF sch.running
       THEN sch' = [sch EXCEPT !.lastcall = "start"]
       ELSE IF RegisteredJobs(sch.times) = 0
       THEN sch' = [sch EXCEPT !.running = FALSE, !.jobs = 0, !.lastcall = "start"]
       ELSE /\ Cardinality(Created) < MaxThreads
            /\ LET new == Cardinality(Created) + 1
               IN sch' = [sch EXCEPT !.running = TRUE,
                                     !.jobs = RegisteredJobs(sch.times),
                                     !.thread = new,
                                     !.loop[new] = "check",
                                     !.lastcall = "start"]
    /\ UNCHANGED <<today, disk, last, prev, loaded, io, rb, fx, px, rc, cu, hx, sx>>

\* scheduler.stop(): lines 127-136, up to the join of the loop thread
SchedulerStopBegin ==
    /\ sch.built /\ sch.main = "idle"
    /\ IF ~sch.running
       THEN sch' = [sch EXCEPT !.lastcall = "stop"]
       ELSE IF sch.thread \in Alive
       THEN sch' = [sch EXCEPT !.running = FALSE, !.main = "joining"]
       ELSE sch' = [sch EXCEPT !.running = FALSE, !.jobs = 0, !.lastcall = "stop"]
    /\ UNCHANGED <<today, disk, last, prev, loaded, io, rb, fx, px, rc, cu, hx, sx>>

\* scheduler.stop(): lines 136-146; join(timeout=5) returns because the
\* thread is over, or after 5 seconds while the thread is inside a job
SchedulerStopEnd ==
    /\ sch.main = "joining"
    /\ sch.loop[sch.thread] \in {"exited", "job"}
    /\ sch' = [sch EXCEPT !.jobs = 0, !.main = "idle", !.lastcall = "stop"]
    /\ UNCHANGED <<today, disk, last, prev, loaded, io, rb, fx, px, rc, cu, hx, sx>>

\* _scheduler_loop, line 157: while self.running
LoopCheck(i) ==
    /\ sch.loop[i] = "check"
    /\ sch' = [sch EXCEPT !.loop[i] = IF sch.running THEN "pending" ELSE "exited"]
    /\ UNCHANGED <<today, disk, last, prev, loaded, io, rb, fx, px, rc, cu, hx, sx>>

\* lines 160-167: schedule.run_pending() finds no job due (or raises) and the
\* thread sleeps, or a registered job is due and _run_job_safely is entered
LoopRunPending(i) ==
    /\ sch.loop[i] = "pending"
    /\ \E due \in BOOLEAN :
           /\ due => sch.jobs > 0
           /\ sch' = [sch EXCEPT !.loop[i] = IF due THEN "job" ELSE "check"]
    /\ UNCHANGED <<today, disk, last, prev, loaded, io, rb, fx, px, rc, cu, hx, sx>>

\* _run_job_safely, lines 58-77: collection_job_func returns or raises
LoopJobEnds(i) ==
    /\ sch.loop[i] = "job"
    /\ \E raises \in BOOLEAN :
           sch' = [sch EXCEPT !.loop[i] = "check", !.raised = raises]
    /\ UNCHANGED <<today, disk, last, prev, loaded, io, rb, fx, px, rc, cu, hx, sx>>

\* scheduler.run_now() called by another thread: lines 228-237 and 58-63
RunNowBegins ==
    /\ sch.built /\ sch.other = "idle"
    /\ sch' = [sch EXCEPT !.other = "job"]
    /\ UNCHANGED <<today, disk, last, prev, loaded, io, rb, fx, px, rc, cu, hx, sx>>

\* lines 63-77 for that call
RunNowEnds ==
    /\ sch.other = "job"
    /\ \E raises \in BOOLEAN :
           sch' = [sch EXCEPT !.other = "idle", !.raised = raises]
    /\ UNCHANGED <<today, disk, last, prev, loaded, io, rb, fx, px, rc, cu, hx, sx>>

LoopStep(i) == LoopCheck(i) \/ LoopRunPending(i) \/ LoopJobEnds(i)

NextSched ==
    \/ SchedulerNew
    \/ SchedulerStart
    \/ SchedulerStopBegin
    \/ SchedulerStopEnd
    \/ \E i \in LoopThreads : LoopCheck(i)
    \/ \E i \in LoopThreads : LoopRunPending(i)
    \/ \E i \in LoopThreads : LoopJobEnds(i)
    \/ RunNowBegins
    \/ RunNowEnds

\* every thread that can take a step takes one in the end: a job ends, a
\* sleep ends, a join returns
SpecSched ==
    /\ InitQuiet
    /\ [][NextSched]_vars
    /\ \A i \in LoopThreads : WF_vars(LoopStep(i))
    /\ WF_vars(SchedulerStopEnd)
    /\ WF_vars(RunNowEnds)

\* C21: at no moment are two collection jobs in progress, the jobs of the
\* loop threads and of run_now() counted together.
JobsInProgress ==
    Cardinality({i \in LoopThreads : sch.loop[i] = "job"})
        + (IF sch.other = "job" THEN 1 ELSE 0)

C21_NoConcurrentRuns == JobsInProgress <= 1

\* C30: start() on a running scheduler changes nothing; with no valid time
\* the scheduler never runs and has no thread; between calls a running
\* scheduler has exactly one loop thread and at least one job; a loop thread
\* whose job raised goes on with its loop; after stop() the scheduler is not
\* running, no job is registered, and every loop thread exits in the end.
C30_SchedulerLifeCycle ==
    /\ [][(SchedulerStart /\ sch.running)
              => /\ sch'.loop = sch.loop /\ sch'.thread = sch.thread
                 /\ sch'.jobs = sch.jobs /\ sch'.running]_vars
    /\ []((sch.built /\ RegisteredJobs(sch.times) = 0)
              => (~sch.running /\ Created = {}))
    /\ []((sch.running /\ sch.main = "idle")
              => (Cardinality(Alive) = 1 /\ sch.jobs >= 1))
    /\ [][\A i \in LoopThreads :
              (sch.loop[i] = "job" /\ sch'.loop[i] /= "job") => sch'.loop[i] = "check"]_vars
    /\ []((sch.lastcall = "stop" /\ sch.main = "idle") => (~sch.running /\ sch.jobs = 0))
    /\ \A i \in LoopThreads :
           (sch.lastcall = "stop" /\ sch.main = "idle" /\ i \in Alive)
               ~> (sch.loop[i] = "exited")

====
